---- MODULE Spec2Model ----
(***************************************************************************)
(* A model of pypose's spline functions (pypose/function/spline.py:        *)
(* CSplineR3, BSplineSE3) and of its least-squares optimizers              *)
(* (pypose/optim/optimizer.py: GaussNewton, LevenbergMarquardt).           *)
(*                                                                         *)
(* Tensors are functions over 0..n-1, so every index of the model is the   *)
(* index of the source.  Real numbers are exact fractions: a quantity is   *)
(* kept as an integer numerator over a denominator named where it is       *)
(* introduced.  One batch lane is modelled: the source treats the lanes of *)
(* a batch independently (and looks segments up once, from lane 0).        *)
(***************************************************************************)
EXTENDS Integers, Sequences, FiniteSets, TLC

VARIABLES
    cs_in,      \* CSplineR3: the arguments of the call (points, steps)
    cs_out,     \* CSplineR3: what the call produced
    bs_in,      \* BSplineSE3: the arguments of the call (input_poses, time)
    bs_out,     \* BSplineSE3: what the call produced
    model,      \* optimizers: the module optimized (its parameters, its map)
    theta,      \* optimizers: the data of every parameter tensor
    opt,        \* optimizers: the optimizer object (class, param_groups)
    last        \* optimizers: what the last call of step did

vars == <<cs_in, cs_out, bs_in, bs_out, model, theta, opt, last>>

splineVars == <<cs_in, cs_out, bs_in, bs_out>>

optimVars == <<model, theta, opt, last>>

\* ------------------------------------------------------------------------
\* Tensors as functions over 0..n-1
\* ------------------------------------------------------------------------

Size(f) == Cardinality(DOMAIN f)

Tensors(n, S) == [0..(n - 1) -> S]

RECURSIVE Pow(_, _)
Pow(b, e) == IF e = 0 THEN 1 ELSE b * Pow(b, e - 1)

RECURSIVE SumTo(_, _)
\* f[0] + ... + f[n]
SumTo(f, n) == IF n < 0 THEN 0 ELSE f[n] + SumTo(f, n - 1)

\* Points of R3
VAdd(a, b) == <<a[1] + b[1], a[2] + b[2], a[3] + b[3]>>
VSub(a, b) == <<a[1] - b[1], a[2] - b[2], a[3] - b[3]>>
VScale(k, a) == <<k * a[1], k * a[2], k * a[3]>>
VDiv(a, k) == <<a[1] \div k, a[2] \div k, a[3] \div k>>

\* ------------------------------------------------------------------------
\* CSplineR3(points, steps)
\* ------------------------------------------------------------------------

\* Bounds of the inputs drawn.  A step is steps/StepDen, 0 < steps <= StepDen,
\* and a query time is a whole number of ticks of 1/StepDen.
MaxPts == 4
StepDen == 4

\* The control points a polyline is drawn from.
PointSet == {<<0, 0, 0>>, <<1, 0, -1>>, <<0, 2, 1>>, <<-1, 1, 2>>}

\* torch.arange(0, end, step): ceil(end / step) values 0, step, 2 step, ...
\* (all below end).  end and step are in ticks.
Arange(end, step) ==
    LET size == IF end <= 0 THEN 0 ELSE (end + step - 1) \div step
    IN  [k \in 0..(size - 1) |-> k * step]

\* torch.searchsorted with right=True: the number of elements <= v.
SearchSorted_Right(sorted, v) ==
    Cardinality({i \in DOMAIN sorted : sorted[i] * StepDen <= v})

\* torch.searchsorted(sorted, v) with the default right=False: the first
\* position whose element is >= v, which is the number of elements < v.
\* sorted is in units of control-point indices, v in ticks.
SearchSorted(sorted, v) ==
    Cardinality({i \in DOMAIN sorted : sorted[i] * StepDen < v})

\* The matrix A of line 77: row i holds the coefficients of 1, t, t^2, t^3
\* in the i-th Hermite weight.
HermA_BadEntry ==
    <<<<1, 0, -3, 2>>, <<0, 1, -2, 1>>, <<0, 0, -3, -2>>, <<0, 0, -1, 1>>>>

HermA ==
    <<<<1, 0, -3, 2>>, <<0, 1, -2, 1>>, <<0, 0, 3, -2>>, <<0, 0, -1, 1>>>>

\* The differences m of lines 69-70: (p[i+1] - p[i]) / (x[i+1] - x[i]).
Slopes(points, x) ==
    [i \in 0..(Size(points) - 2) |->
        VDiv(VSub(points[i + 1], points[i]), x[i + 1] - x[i])]

Tangents_NoAverage(points, x) ==
    LET n == Size(points)
        m == Slopes(points, x)
    IN  [i \in 0..(n - 1) |->
            IF i = n - 1 THEN VScale(2, m[n - 2]) ELSE VScale(2, m[i])]

\* The tangents of line 71, times 2: the first and the last slope at the two
\* ends, the mean of the two adjacent slopes in between.
Tangents(points, x) ==
    LET n == Size(points)
        m == Slopes(points, x)
    IN  [i \in 0..(n - 1) |->
            IF i = 0 THEN VScale(2, m[0])
            ELSE IF i = n - 1 THEN VScale(2, m[n - 2])
            ELSE VAdd(m[i], m[i - 1])]

\* Lines 75-82 for one query: t = tnum/StepDen; the four Hermite weights
\* hh = A @ [1, t, t^2, t^3], as numerators over StepDen^3.
HermiteWeights(tnum) ==
    LET tt == [k \in 0..3 |-> Pow(tnum, k) * Pow(StepDen, 3 - k)]
    IN  [i \in 0..3 |->
            SumTo([k \in 0..3 |-> HermA[i + 1][k + 1] * tt[k]], 3)]

\* interpoints are kept as numerators over OutDen (tangents carry the 2).
OutDen == 2 * Pow(StepDen, 3)

\* Lines 83-86 for one query.
InterPoint(points, m2, idx, dx, hh) ==
    VAdd(VAdd(VScale(2 * hh[0], points[idx]),
              VScale(hh[1] * dx, m2[idx])),
         VAdd(VScale(2 * hh[2], points[idx + 1]),
              VScale(hh[3] * dx, m2[idx + 1])))

NoTensor == [k \in {} |-> 0]

\* The whole call.  An index outside a tensor raises IndexError at the line
\* that reads it: line 71 (m[..., [0], :] when there is no slope) or line 73
\* (x[..., idxs + 1]); what was computed before stays in the record.
CSplineR3(points, steps) ==
    LET num_p == Size(points)
        xs == Arange((num_p - 1) * StepDen + steps, steps)
        x == [i \in 0..(num_p - 1) |-> i]
        idxs == [j \in DOMAIN xs |->
                    SearchSorted([i \in 0..(num_p - 2) |-> x[i + 1]], xs[j])]
    IN  IF num_p < 2
        THEN [status |-> "IndexError", line |-> 71, xs |-> xs,
              idxs |-> NoTensor, hh |-> NoTensor, interpoints |-> NoTensor]
        ELSE IF \E j \in DOMAIN idxs : idxs[j] + 1 > num_p - 1
        THEN [status |-> "IndexError", line |-> 73, xs |-> xs,
              idxs |-> idxs, hh |-> NoTensor, interpoints |-> NoTensor]
        ELSE
            LET m2 == Tangents(points, x)
                dx == [j \in DOMAIN xs |-> x[idxs[j] + 1] - x[idxs[j]]]
                tnum == [j \in DOMAIN xs |->
                            (xs[j] - x[idxs[j]] * StepDen) \div dx[j]]
                hh == [j \in DOMAIN xs |-> HermiteWeights(tnum[j])]
            IN  [status |-> "ok", line |-> 87, xs |-> xs, idxs |-> idxs,
                 hh |-> hh,
                 interpoints |-> [j \in DOMAIN xs |->
                     InterPoint(points, m2, idxs[j], dx[j], hh[j])]]

NotCalled == [status |-> "none"]

CSplineInputs ==
    {[points |-> p, steps |-> s] :
        p \in UNION {Tensors(n, PointSet) : n \in 1..MaxPts}, s \in 1..StepDen}

InitCSplineR3 ==
    /\ cs_in \in CSplineInputs
    /\ cs_out = NotCalled
    /\ bs_in = "idle"
    /\ bs_out = "idle"
    /\ model = "idle" /\ theta = "idle" /\ opt = "idle" /\ last = "idle"

CallCSplineR3 ==
    /\ cs_out = NotCalled
    /\ cs_out' = CSplineR3(cs_in.points, cs_in.steps)
    /\ UNCHANGED <<cs_in, bs_in, bs_out, optimVars>>

NextCSplineR3 == CallCSplineR3

SpecCSplineR3 == InitCSplineR3 /\ [][NextCSplineR3]_vars

\* ------------------------------------------------------------------------
\* The Lie group the poses live in
\* ------------------------------------------------------------------------
\* BSplineSE3 touches its poses only through the LieTensor operations Inv, *,
\* Log, the scalar multiple of a tangent, and Exp, which pypose defines
\* outside spline.py.  They are modelled by a Lie group whose operations are
\* exact over the fractions and do not commute, so that an operand order or a
\* weight that differs from the source is seen: the group of the matrices
\*     [1 a c; 0 1 b; 0 0 1]
\* with the matrix product, whose Log and Exp are polynomials.  It satisfies
\* what the specification asks of the manifold algebra: the group laws and
\* Exp(Log(p)) = p.
\*
\* A group element (a, b, c) and a tangent (x, y, z) are kept as numerators
\* <<a LieDen, b LieDen, c 2 LieDen^2>>.

\* Bounds of the inputs drawn.  A query time is u/UDen, 0 <= u < UDen.
MaxPoses == 3
MaxK == 2
UDen == 2

\* The denominator of the blend weights: line 190 divides by 6, and the
\* powers of a query time have denominator UDen^3.
LieDen == 6 * Pow(UDen, 3)

Pose(a, b, c) == <<a * LieDen, b * LieDen, c * 2 * LieDen * LieDen>>

Identity == Pose(0, 0, 0)

\* p * q
Mul(p, q) == <<p[1] + q[1], p[2] + q[2], p[3] + q[3] + 2 * p[1] * q[2]>>

\* p.Inv()
Inv(p) == <<-p[1], -p[2], -p[3] + 2 * p[1] * p[2]>>

\* p.Log(): the tangent of p
Log(p) == <<p[1], p[2], p[3] - p[1] * p[2]>>

\* x.Exp(): the group element of the tangent x
Exp(x) == <<x[1], x[2], x[3] + x[1] * x[2]>>

\* x * w for a tangent x and the weight wn/LieDen
Scale(x, wn) ==
    <<(x[1] * wn) \div LieDen, (x[2] * wn) \div LieDen, (x[3] * wn) \div LieDen>>

\* is_SE3(obj): the LieTensor's type is SE3_type
is_SE3(ltype) == ltype = "SE3_type"

\* ------------------------------------------------------------------------
\* BSplineSE3(input_poses, time)
\* ------------------------------------------------------------------------

\* The poses a control sequence is drawn from.
PoseSet == {Pose(0, 0, 0), Pose(1, 0, 0), Pose(0, 1, 0), Pose(1, 2, -1)}

\* Lines 181-183: the first pose, the input, the last pose.
Padded_FirstNotDuplicated(input_poses) ==
    LET n == Size(input_poses)
    IN  [i \in 0..(n + 1) |->
            IF i >= n THEN input_poses[n - 1] ELSE input_poses[i]]

Padded(input_poses) ==
    LET n == Size(input_poses)
    IN  [i \in 0..(n + 1) |->
            IF i = 0 THEN input_poses[0]
            ELSE IF i = n + 1 THEN input_poses[n - 1]
            ELSE input_poses[i - 1]]

\* The matrix B of lines 188-190, before its division by 6.
BMat == <<<<5, 3, -3, 1>>, <<1, 3, 3, -2>>, <<0, 0, 0, 1>>>>

\* Lines 186-194: w[r][j], the r-th row of B @ [1, u, u^2, u^3] at the j-th
\* query time u = time[j]/UDen, as a numerator over LieDen.
Weights(time) ==
    LET tt == [k \in 0..3 |->
                  [j \in DOMAIN time |-> Pow(time[j], k) * Pow(UDen, 3 - k)]]
    IN  [r \in 0..2 |->
            [j \in DOMAIN time |->
                SumTo([k \in 0..3 |-> BMat[r + 1][k + 1] * tt[k][j]], 3)]]

\* Lines 195-196: window i holds the padded poses i, i+1, i+2, i+3.
PosesTensor(padded) ==
    [i \in 0..(Size(padded) - 4) |-> [k \in 0..3 |-> padded[i + k]]]

\* Lines 198-203: (a.Inv() * b).Log() * w, then Exp.
Increment(a, b, wn) == Exp(Scale(Log(Mul(Inv(a), b)), wn))

Compose_Reversed(t, a0, a1, a2) == Mul(Mul(Mul(t, a2), a1), a0)

\* Line 205: T_delta * A0 * A1 * A2, from the left.
Compose(t, a0, a1, a2) == Mul(Mul(Mul(t, a0), a1), a2)

BsFailed(status, line, done) ==
    [status |-> status, line |-> line, done |-> done, w |-> NoTensor,
     A0 |-> NoTensor, A1 |-> NoTensor, A2 |-> NoTensor,
     interPoses |-> NoTensor]

\* The whole call.  done lists the computations performed, in order.
BSplineSE3(ltype, input_poses, time_shape, time) ==
    IF ~is_SE3(ltype) THEN BsFailed("AssertionError", 179, <<>>)
    ELSE IF ~(time_shape[1] = 1 /\ time_shape[2] = 1)
    THEN BsFailed("AssertionError", 180, <<>>)
    ELSE IF Size(input_poses) = 0 THEN BsFailed("IndexError", 182, <<>>)
    ELSE
        LET padded == Padded(input_poses)
            timeSize == Size(time)
            posesSize == Size(padded)
            w == Weights(time)
        IN  IF posesSize - 3 <= 0
            THEN BsFailed("RuntimeError", 195, <<"pad", "weights">>)
            ELSE
                LET posesTensor == PosesTensor(padded)
                    T_delta == [i \in 0..(posesSize - 4) |->
                                   [j \in DOMAIN time |-> padded[i]]]
                    A0 == [i \in DOMAIN posesTensor |-> [j \in DOMAIN time |->
                              Increment(posesTensor[i][0], posesTensor[i][1],
                                        w[0][j])]]
                    A1 == [i \in DOMAIN posesTensor |-> [j \in DOMAIN time |->
                              Increment(posesTensor[i][1], posesTensor[i][2],
                                        w[1][j])]]
                    A2 == [i \in DOMAIN posesTensor |-> [j \in DOMAIN time |->
                              Increment(posesTensor[i][2], posesTensor[i][3],
                                        w[2][j])]]
                    interPosesSize == timeSize * (posesSize - 3)
                IN  [status |-> "ok", line |-> 206,
                     done |-> <<"pad", "weights", "windows", "compose">>,
                     w |-> w, A0 |-> A0, A1 |-> A1, A2 |-> A2,
                     interPoses |-> [f \in 0..(interPosesSize - 1) |->
                         LET i == f \div timeSize
                             j == f % timeSize
                         IN  Compose(T_delta[i][j], A0[i][j], A1[i][j],
                                     A2[i][j])]]

BSplineInputs ==
    {[ltype |-> l, input_poses |-> p, time_shape |-> sh, time |-> t] :
        l \in {"SE3_type", "se3_type"},
        p \in UNION {Tensors(n, PoseSet) : n \in 0..MaxPoses},
        sh \in {<<1, 1>>, <<2, 1>>},
        t \in UNION {Tensors(k, 0..(UDen - 1)) : k \in 1..MaxK}}

InitBSplineSE3 ==
    /\ bs_in \in BSplineInputs
    /\ bs_out = NotCalled
    /\ cs_in = "idle"
    /\ cs_out = "idle"
    /\ model = "idle" /\ theta = "idle" /\ opt = "idle" /\ last = "idle"

CallBSplineSE3 ==
    /\ bs_out = NotCalled
    /\ bs_out' = BSplineSE3(bs_in.ltype, bs_in.input_poses, bs_in.time_shape,
                            bs_in.time)
    /\ UNCHANGED <<bs_in, cs_in, cs_out, optimVars>>

NextBSplineSE3 == CallBSplineSE3

SpecBSplineSE3 == InitBSplineSE3 /\ [][NextBSplineSE3]_vars

\* ------------------------------------------------------------------------
\* Exact arithmetic of the optimizers
\* ------------------------------------------------------------------------
\* A number of a parameter, a residual or an update is a fraction
\* [n |-> numerator, d |-> denominator] in lowest terms with d > 0; the
\* Jacobian and the matrices built from it hold integers.

Abs(a) == IF a < 0 THEN -a ELSE a

RECURSIVE GCD(_, _)
GCD(a, b) == IF b = 0 THEN a ELSE GCD(b, a % b)

Rat(n, d) ==
    LET g == GCD(Abs(n), Abs(d))
        sgn == IF d < 0 THEN -1 ELSE 1
    IN  [n |-> (sgn * n) \div g, d |-> (sgn * d) \div g]

RInt(k) == [n |-> k, d |-> 1]

RZero == RInt(0)

RAdd(a, b) ==
    LET g == GCD(a.d, b.d)
    IN  Rat(a.n * (b.d \div g) + b.n * (a.d \div g), (a.d \div g) * b.d)

RSub(a, b) == RAdd(a, [n |-> -b.n, d |-> b.d])

RMul(a, b) ==
    LET g == GCD(Abs(a.n), b.d)
        h == GCD(Abs(b.n), a.d)
    IN  Rat((a.n \div g) * (b.n \div h), (a.d \div h) * (b.d \div g))

RECURSIVE RSumTo(_, _)
\* f[0] + ... + f[n] over the fractions
RSumTo(f, n) == IF n < 0 THEN RZero ELSE RAdd(f[n], RSumTo(f, n - 1))

\* A matrix is a tensor of rows.  Rows(M) x Cols(M, n) with n given where a
\* matrix may have no row.
Rows(M) == Size(M)

Transpose(M, cols) ==
    [j \in 0..(cols - 1) |-> [i \in DOMAIN M |-> M[i][j]]]

\* A @ B over the integers; B has inner rows.
MatMul(A, B, inner, cols) ==
    [i \in DOMAIN A |-> [j \in 0..(cols - 1) |->
        SumTo([k \in 0..(inner - 1) |-> A[i][k] * B[k][j]], inner - 1)]]

\* M @ v for an integer matrix and a vector of fractions.
MatVec(M, v) ==
    [i \in DOMAIN M |->
        RSumTo([k \in DOMAIN v |-> RMul(RInt(M[i][k]), v[k])], Size(v) - 1)]

\* M without row r and column c.
Minor(M, r, c) ==
    LET n == Size(M)
    IN  [i \in 0..(n - 2) |-> [j \in 0..(n - 2) |->
            M[IF i < r THEN i ELSE i + 1][IF j < c THEN j ELSE j + 1]]]

RECURSIVE Det(_)
Det(M) ==
    LET n == Size(M)
    IN  IF n = 0 THEN 1
        ELSE SumTo([j \in 0..(n - 1) |->
                 (IF j % 2 = 0 THEN 1 ELSE -1) * M[0][j] * Det(Minor(M, 0, j))],
                 n - 1)

\* The leading k x k block of M.
Leading(M, k) == [i \in 0..(k - 1) |-> [j \in 0..(k - 1) |-> M[i][j]]]

\* A symmetric matrix is positive-definite when its leading principal minors
\* are all positive: exactly then torch.linalg.cholesky factors it.
PositiveDefinite(M) == \A k \in 1..Size(M) : Det(Leading(M, k)) > 0

\* The inverse of a nonsingular M as [num |-> adjugate, den |-> determinant].
Inverse(M) ==
    [num |-> [i \in DOMAIN M |-> [j \in DOMAIN M |->
                 (IF (i + j) % 2 = 0 THEN 1 ELSE -1) * Det(Minor(M, j, i))]],
     den |-> Det(M)]

\* torch.pinverse of G = J^T J, for a Jacobian of at most two rows: G is
\* symmetric, positive-semidefinite and of rank at most 2, so with e1 its trace
\* and e2 the sum of its principal 2 x 2 minors (the sum and the product of its
\* nonzero eigenvalues when the rank is 2) the Moore-Penrose inverse is
\*     0                                 when e1 = 0  (rank 0)
\*     G / e1^2                          when e2 = 0  (rank 1)
\*     ((e1^2 - e2) G - e1 G^2) / e2^2   otherwise    (rank 2).
Pinverse(G) ==
    LET n == Size(G)
        e1 == SumTo([i \in 0..(n - 1) |-> G[i][i]], n - 1)
        e2 == SumTo([i \in 0..(n - 1) |->
                  SumTo([j \in 0..(n - 1) |->
                      IF i < j THEN G[i][i] * G[j][j] - G[i][j] * G[j][i]
                      ELSE 0], n - 1)], n - 1)
        G2 == MatMul(G, G, n, n)
    IN  IF e1 = 0
        THEN [num |-> [i \in DOMAIN G |-> [j \in DOMAIN G |-> 0]], den |-> 1]
        ELSE IF e2 = 0 THEN [num |-> G, den |-> e1 * e1]
        ELSE [num |-> [i \in DOMAIN G |-> [j \in DOMAIN G |->
                         (e1 * e1 - e2) * G[i][j] - e1 * G2[i][j]]],
              den |-> e2 * e2]

\* (num / den) @ v
Apply(inv, v) ==
    LET nv == MatVec(inv.num, v)
    IN  [i \in DOMAIN nv |-> RMul(nv[i], Rat(1, inv.den))]

\* ------------------------------------------------------------------------
\* GaussNewton and LevenbergMarquardt
\* ------------------------------------------------------------------------
\* The module optimized has the parameter tensors 0..P-1, each with a number
\* of elements and a requires_grad flag, and computes  outputs = jac @ v  from
\* the flattened trainable parameters v: its Jacobian is jac wherever it is
\* taken (a frozen parameter adds a constant to the outputs, which the targets
\* absorb).  One more tensor, with the next index, belongs to the caller and
\* not to the module: the caller may hand it to the optimizer as a parameter
\* group of its own (torch.optim.Optimizer.add_param_group).

\* Bounds of the modules drawn and of the calls made.
MaxParams == 3
MaxTrain == 3
MaxSteps == 2

NumelSet == {1, 2}

\* The indices of the outputs of the module.
Outputs == 0..1

\* The kinds of parameter tensor drawn: a trainable one of either size, a
\* frozen one of one element (step never reads the size of a frozen tensor).
ParamKinds ==
    {k \in [numel : NumelSet, requires_grad : BOOLEAN] :
        k.requires_grad \/ k.numel = 1}

\* The caller's own tensor.
SpareParam == [numel |-> 1, requires_grad |-> TRUE]

\* What the optimizer knows of tensor p: p.numel(), p.requires_grad.
Info(params, p) == IF p \in DOMAIN params THEN params[p] ELSE SpareParam

\* list(range(n)) as a list
Range(n) == [k \in 1..n |-> k - 1]

RECURSIVE SeqSum(_)
SeqSum(q) == IF q = <<>> THEN 0 ELSE Head(q) + SeqSum(Tail(q))

\* [p for p in ps if p.requires_grad]
Trainable(params, ps) ==
    SelectSeq(ps, LAMBDA p : Info(params, p).requires_grad)

\* Lines 93, 331: numels = [p.numel() for p in pg['params'] if p.requires_grad]
Numels(params, ps) ==
    LET tr == Trainable(params, ps)
    IN  [k \in 1..Len(tr) |-> Info(params, tr[k]).numel]

\* torch.split(D, numels) once the sizes sum to the length of D: the k-th
\* chunk holds the next numels[k] entries.
Split(D, numels) ==
    [k \in 1..Len(numels) |->
        [e \in 0..(numels[k] - 1) |-> D[SeqSum(SubSeq(numels, 1, k - 1)) + e]]]

\* The flattened trainable parameters of the module, in the order of
\* model.parameters().
Flatten(params, th) ==
    LET tr == Trainable(params, Range(Size(params)))
        numels == Numels(params, Range(Size(params)))
        off(k) == SeqSum(SubSeq(numels, 1, k - 1))
    IN  [e \in 0..(SeqSum(numels) - 1) |->
            LET k == CHOOSE k \in 1..Len(tr) :
                         off(k) <= e /\ e < off(k) + numels[k]
            IN  th[tr[k]][e - off(k)]]

\* self.model(inputs)
Forward(m, th) == MatVec(m.jac, Flatten(m.params, th))

\* modjac(self.model, inputs, flatten=True): the Jacobian of the outputs with
\* respect to the flattened trainable parameters.
modjac(m, th) == m.jac

\* _residual (lines 100-112): targets - outputs, or -outputs without targets.
Residual(m, th, targets) ==
    LET outputs == Forward(m, th)
    IN  [i \in DOMAIN outputs |->
            IF targets.given THEN RSub(RInt(targets.y[i]), outputs[i])
            ELSE RSub(RZero, outputs[i])]

\* The square of Tensor.norm(): the norm is 0 exactly when its square is.
NormSq(E) == RSumTo([i \in DOMAIN E |-> RMul(E[i], E[i])], Size(E) - 1)

\* torch.clamp(x, min, max) = minimum(maximum(x, min), max): max when
\* min > max.
Clamp(x, lo, hi) ==
    LET low == IF x < lo THEN lo ELSE x
    IN  IF low > hi THEN hi ELSE low

\* Lines 333-334: A = J.T @ J, then damping * clamp(diag(A), min, max) added
\* to its diagonal.
Damped(JtJ, pg) ==
    [i \in DOMAIN JtJ |-> [j \in DOMAIN JtJ |->
        IF i = j
        THEN JtJ[i][i] + pg.damping * Clamp(JtJ[i][i], pg.min, pg.max)
        ELSE JtJ[i][j]]]

Min2(a, b) == IF a < b THEN a ELSE b

RECURSIVE Update(_, _, _, _, _)
\* Lines 97, 337: [p.add_(d.view(p.shape)) for p, d in zip(pg['params'], D)
\* if p.requires_grad], from its k-th pair on.  view raises RuntimeError when
\* the chunk has not the elements of p; what was added before stays.
Update(params, th, ps, chunks, k) ==
    IF k > Min2(Len(ps), Len(chunks)) THEN [status |-> "ok", theta |-> th]
    ELSE IF ~Info(params, ps[k]).requires_grad
    THEN Update(params, th, ps, chunks, k + 1)
    ELSE IF Size(chunks[k]) # Info(params, ps[k]).numel
    THEN [status |-> "RuntimeError", theta |-> th]
    ELSE Update(params,
                [th EXCEPT ![ps[k]] =
                    [e \in DOMAIN @ |-> RAdd(@[e], chunks[k][e])]],
                ps, chunks, k + 1)

\* What a pass of the loop over param_groups leaves for inspection: the
\* hyperparameters of the group, J^T J, the matrix A solved with (J^T J
\* itself for GaussNewton), whether D was computed, and D.
PassRecord(pg, JtJ, A, solved, D) ==
    [damping |-> pg.damping, min |-> pg.min, max |-> pg.max,
     JtJ |-> JtJ, A |-> A, solved |-> solved, D |-> D]

\* A pass that ended in status at line, with the parameters th.
PassEnd(status, line, th, rec) ==
    [status |-> status, line |-> line, theta |-> th, rec |-> rec]

\* Lines 97, 337 done, with u the outcome of Update.
Added(cls, u, rec) ==
    PassEnd(u.status, IF cls = "LevenbergMarquardt" THEN 337 ELSE 97,
            u.theta, rec)

\* Lines 96-97, 336-337: D is split by numels (RuntimeError when the sizes
\* do not sum to its length) and the chunks are added to the parameters.
SplitAndAdd(cls, m, pg, th, numels, D, rec) ==
    IF SeqSum(numels) # Size(D)
    THEN PassEnd("RuntimeError",
                 IF cls = "LevenbergMarquardt" THEN 336 ELSE 96, th, rec)
    ELSE Added(cls, Update(m.params, th, pg.params, Split(D, numels), 1),
               rec)

\* The pass from line 96 (336) on, with the update vector D.
Solved(cls, m, pg, th, JtJ, A, D) ==
    SplitAndAdd(cls, m, pg, th, Numels(m.params, pg.params), D,
                PassRecord(pg, JtJ, A, TRUE, D))

\* Line 95: D = (J.T @ J).pinverse() @ (J.T @ E).
\* Line 335: D = (J.T @ E).cholesky_solve(torch.linalg.cholesky(A)), where
\* cholesky raises LinAlgError unless A is positive-definite.
Solve(cls, m, pg, th, JtJ, A, JtE) ==
    IF cls = "LevenbergMarquardt" /\ ~PositiveDefinite(A)
    THEN PassEnd("LinAlgError", 335, th,
                 PassRecord(pg, JtJ, A, FALSE, NoTensor))
    ELSE Solved(cls, m, pg, th, JtJ, A,
                IF cls = "LevenbergMarquardt" THEN Apply(Inverse(A), JtE)
                ELSE Apply(Pinverse(JtJ), JtE))

\* Lines 333-334: A is J^T J with the damped diagonal (GaussNewton solves
\* with J^T J itself), and J^T E is the right-hand side.
Normal(cls, m, pg, E, th, Jt, JtJ) ==
    Solve(cls, m, pg, th, JtJ,
          IF cls = "LevenbergMarquardt" THEN Damped(JtJ, pg) ELSE JtJ,
          MatVec(Jt, E))

\* The pass from line 95 (333) on, with the Jacobian J and its transpose.
Linearized(cls, m, pg, E, th, J, Jt) ==
    Normal(cls, m, pg, E, th, Jt, MatMul(Jt, J, Size(J), Size(Jt)))

\* One pass of the loop over param_groups (lines 92-97 of GaussNewton.step,
\* 330-337 of LevenbergMarquardt.step) on the parameters th, with the
\* residual E taken before the loop: J = modjac(...) of line 94 (332) first.
GroupStep(cls, m, pg, E, th) ==
    Linearized(cls, m, pg, E, th, modjac(m, th),
               Transpose(modjac(m, th), Size(modjac(m, th)[0])))

RECURSIVE Loop(_, _, _, _, _, _, _)
\* The loop after the pass r over group g: an error ends the call.
AfterPass(cls, m, groups, E, g, recs, r) ==
    IF r.status # "ok"
    THEN [status |-> r.status, line |-> r.line, theta |-> r.theta,
          groups |-> Append(recs, r.rec)]
    ELSE Loop(cls, m, groups, E, r.theta, g + 1, Append(recs, r.rec))

\* for pg in self.param_groups, from group g on; recs are the passes made.
Loop(cls, m, groups, E, th, g, recs) ==
    IF g > Len(groups)
    THEN [status |-> "ok", line |-> 0, theta |-> th, groups |-> recs]
    ELSE AfterPass(cls, m, groups, E, g, recs,
                   GroupStep(cls, m, groups[g], E, th))

NoValue == RInt(-1)

\* Lines 98, 338: the norm of the new residual is returned (ret holds its
\* square; NoValue when the loop r raised).
Returned(m, th, targets, count, E, r) ==
    [theta |-> r.theta,
     last |-> [status |-> r.status, line |-> r.line, count |-> count + 1,
               E |-> E, before |-> th, groups |-> r.groups,
               ret |-> IF r.status = "ok"
                       THEN NormSq(Residual(m, r.theta, targets))
                       ELSE NoValue]]

\* The call from line 92 (330) on, with the residual E of line 91 (329).
AfterResidual(cls, m, groups, th, targets, count, E) ==
    Returned(m, th, targets, count, E, Loop(cls, m, groups, E, th, 1, <<>>))

\* step(inputs, targets): the residual, the loop, the value returned.
Step(cls, m, groups, th, targets, count) ==
    AfterResidual(cls, m, groups, th, targets, count,
                  Residual(m, th, targets))

\* The parameters and the record of the call after the call r.
Stepping(r) == theta' = r.theta /\ last' = r.last

\* ---- the modules, the arguments and the calls drawn ----

\* Jacobians of a module with n trainable elements: no dependence, one
\* parameter element per output, all ones (rank 1), upper triangular.
Jacobians(n) ==
    {[i \in Outputs |-> [j \in 0..(n - 1) |->
         CASE kind = "zero" -> 0
           [] kind = "eye" -> IF i = j THEN 1 ELSE 0
           [] kind = "ones" -> 1
           [] kind = "tri" -> IF j >= i THEN 1 ELSE 0]] :
        kind \in {"zero", "eye", "ones", "tri"}}

Models ==
    {[params |-> ps, jac |-> J] :
        <<ps, J>> \in UNION {
            {<<ps, J>> :
                J \in Jacobians(SeqSum(Numels(ps, Range(Size(ps)))))} :
            ps \in {q \in UNION {Tensors(k, ParamKinds) : k \in 1..MaxParams} :
                       LET n == SeqSum(Numels(q, Range(Size(q))))
                       IN  1 <= n /\ n <= MaxTrain}}}

\* The values a damping factor and the clamp bounds <<min, max>> are given.
DampingSet == {-1, 0, 1}
ClampBounds == {<<1, 2>>, <<1, -1>>, <<0, 2>>}

TargetArgs ==
    {[given |-> FALSE, y |-> [i \in Outputs |-> 0]],
     [given |-> TRUE, y |-> [i \in Outputs |-> i + 1]]}

NoArgs == [damping |-> 0, min |-> 0, max |-> 0]

NoStep ==
    [status |-> "none", line |-> 0, count |-> 0, E |-> NoTensor,
     before |-> NoTensor, groups |-> <<>>, ret |-> NoValue]

Init ==
    /\ model \in Models
    /\ theta = [p \in 0..Size(model.params) |->
                   [e \in 0..(Info(model.params, p).numel - 1) |-> RZero]]
    /\ opt = [cls |-> "none", args |-> NoArgs, param_groups |-> <<>>]
    /\ last = NoStep
    /\ cs_in = "idle" /\ cs_out = "idle" /\ bs_in = "idle" /\ bs_out = "idle"

\* GaussNewton.__init__ (lines 40-42): one group with every parameter of the
\* module, and no defaults (the hyperparameter fields stay unused).
NewGaussNewton ==
    /\ opt.cls = "none"
    /\ opt' = [cls |-> "GaussNewton", args |-> NoArgs,
               param_groups |->
                   <<[params |-> Range(Size(model.params))] @@ NoArgs>>]
    /\ UNCHANGED <<model, theta, last, splineVars>>

\* LevenbergMarquardt.__init__ (lines 269-273): the assertion on damping, then
\* one group with every parameter of the module and the defaults.
NewLevenbergMarquardt ==
    /\ opt.cls = "none"
    /\ \E damping \in DampingSet, mm \in ClampBounds :
          LET defaults == [damping |-> damping, min |-> mm[1], max |-> mm[2]]
          IN  opt' = IF damping > 0
                     THEN [cls |-> "LevenbergMarquardt", args |-> defaults,
                           param_groups |->
                               <<[params |-> Range(Size(model.params))]
                                     @@ defaults>>]
                     ELSE [cls |-> "AssertionError", args |-> defaults,
                           param_groups |-> <<>>]
    /\ UNCHANGED <<model, theta, last, splineVars>>

\* The caller sets pg['damping'] of a group between two steps.
AdjustDamping ==
    /\ opt.cls = "LevenbergMarquardt"
    /\ \E g \in DOMAIN opt.param_groups, damping \in DampingSet :
          /\ damping # opt.param_groups[g].damping
          /\ opt' = [opt EXCEPT !.param_groups[g].damping = damping]
    /\ UNCHANGED <<model, theta, last, splineVars>>

\* The caller adds its own tensor as a second group, which takes the
\* defaults of the optimizer.
AddParamGroup ==
    /\ opt.cls \in {"GaussNewton", "LevenbergMarquardt"}
    /\ Len(opt.param_groups) = 1
    /\ opt' = [opt EXCEPT !.param_groups =
                  Append(@, [params |-> <<Size(model.params)>>] @@ opt.args)]
    /\ UNCHANGED <<model, theta, last, splineVars>>

\* GaussNewton.step (lines 91-98)
StepGaussNewton ==
    /\ opt.cls = "GaussNewton"
    /\ last.count < MaxSteps
    /\ \E targets \in TargetArgs :
          Stepping(Step("GaussNewton", model, opt.param_groups, theta,
                        targets, last.count))
    /\ UNCHANGED <<model, opt, splineVars>>

\* LevenbergMarquardt.step (lines 329-338)
StepLevenbergMarquardt ==
    /\ opt.cls = "LevenbergMarquardt"
    /\ last.count < MaxSteps
    /\ \E targets \in TargetArgs :
          Stepping(Step("LevenbergMarquardt", model, opt.param_groups, theta,
                        targets, last.count))
    /\ UNCHANGED <<model, opt, splineVars>>

Next ==
    \/ NewGaussNewton
    \/ NewLevenbergMarquardt
    \/ AdjustDamping
    \/ AddParamGroup
    \/ StepGaussNewton
    \/ StepLevenbergMarquardt

Spec == Init /\ [][Next]_vars

\* ------------------------------------------------------------------------
\* Properties of CSplineR3 (specification SpecCSplineR3)
\* ------------------------------------------------------------------------

CsN == Size(cs_in.points)

CsReturned == cs_out.status = "ok"

\* C3: for every N >= 2 and every step in (0,1], every query time generated
\* lies in [0, N-1], every segment index looked up lies in 0..N-2, and the
\* call returns without an index error.
C3_SamplesWithinPolyline ==
    (cs_out.status # "none" /\ CsN >= 2) =>
        /\ cs_out.status = "ok"
        /\ \A j \in DOMAIN cs_out.xs :
              0 <= cs_out.xs[j] /\ cs_out.xs[j] <= (CsN - 1) * StepDen
        /\ \A j \in DOMAIN cs_out.idxs :
              0 <= cs_out.idxs[j] /\ cs_out.idxs[j] <= CsN - 2

\* C4: the value computed for a query time equal to an integer index k is
\* control point k: the Hermite weights there are 1 on p_k and 0 on the other
\* point of the segment and on both tangents.
C4_ControlPointsInterpolated ==
    CsReturned =>
        \A j \in DOMAIN cs_out.xs : \A k \in 0..(CsN - 1) :
            cs_out.xs[j] = k * StepDen =>
                LET idx == cs_out.idxs[j]
                    hh == cs_out.hh[j]
                    one == Pow(StepDen, 3)
                IN  /\ cs_out.interpoints[j] = VScale(OutDen, cs_in.points[k])
                    /\ k \in {idx, idx + 1}
                    /\ hh[1] = 0 /\ hh[3] = 0
                    /\ hh[0] = (IF k = idx THEN one ELSE 0)
                    /\ hh[2] = (IF k = idx + 1 THEN one ELSE 0)

\* A returned call that sampled an interior control point of a polyline that
\* bends there (the tangents on both sides are not zero).
C4_Witness ==
    /\ CsReturned
    /\ CsN >= 3
    /\ \E j \in DOMAIN cs_out.xs :
          /\ cs_out.xs[j] = StepDen
          /\ cs_out.idxs[j] = 0
          /\ cs_in.points[0] # cs_in.points[1]
          /\ cs_in.points[2] # cs_in.points[0]
          /\ cs_out.interpoints[j] # <<0, 0, 0>>

\* The curve on segment idx is the cubic whose coefficient of t^k is
\* sum_i A[i][k] c_i, with c = (p[idx], m[idx] dx, p[idx+1], m[idx+1] dx);
\* its derivative at local t (0 or 1), times 2.
SegDeriv(points, idx, t) ==
    LET x == [i \in 0..(Size(points) - 1) |-> i]
        m2 == Tangents(points, x)
        dx == x[idx + 1] - x[idx]
        c == <<VScale(2, points[idx]), VScale(dx, m2[idx]),
               VScale(2, points[idx + 1]), VScale(dx, m2[idx + 1])>>
        coef(k) == VAdd(VAdd(VScale(HermA[1][k + 1], c[1]),
                             VScale(HermA[2][k + 1], c[2])),
                        VAdd(VScale(HermA[3][k + 1], c[3]),
                             VScale(HermA[4][k + 1], c[4])))
    IN  VDiv(VAdd(coef(1),
                  VAdd(VScale(2 * t, coef(2)), VScale(3 * t * t, coef(3)))),
             dx)

\* C10: at each interior control point i the derivative at the end of segment
\* i-1 equals the derivative at the start of segment i, and both are the mean
\* of the two adjacent one-sided differences.
C10_TangentContinuity ==
    CsReturned =>
        \A i \in 1..(CsN - 2) :
            LET p == cs_in.points
            IN  /\ SegDeriv(p, i - 1, 1) = SegDeriv(p, i, 0)
                /\ SegDeriv(p, i, 0) =
                       VAdd(VSub(p[i], p[i - 1]), VSub(p[i + 1], p[i]))

\* A returned call that sampled the segments on both sides of an interior
\* control point where the two one-sided differences differ.
C10_Witness ==
    /\ CsReturned
    /\ \E i \in 1..(CsN - 2) :
          /\ \E j \in DOMAIN cs_out.idxs : cs_out.idxs[j] = i - 1
          /\ \E j \in DOMAIN cs_out.idxs : cs_out.idxs[j] = i
          /\ VSub(cs_in.points[i], cs_in.points[i - 1])
                 # VSub(cs_in.points[i + 1], cs_in.points[i])

\* ------------------------------------------------------------------------
\* Properties of BSplineSE3 (specification SpecBSplineSE3)
\* ------------------------------------------------------------------------

BsN == Size(bs_in.input_poses)

BsK == Size(bs_in.time)

BsWellFormed ==
    /\ bs_in.ltype = "SE3_type"
    /\ bs_in.time_shape = <<1, 1>>
    /\ BsN >= 2

\* The input with its first and its last pose duplicated once.
BsPaddedRef ==
    [i \in 0..(BsN + 1) |->
        bs_in.input_poses[IF i = 0 THEN 0
                          ELSE IF i = BsN + 1 THEN BsN - 1 ELSE i - 1]]

\* (1/6) [[5,3,-3,1],[1,3,3,-2],[0,0,0,1]] applied to [1, u, u^2, u^3] at
\* u = un/UDen, written out row by row, as numerators over LieDen.
BsW0(un) ==
    5 * UDen * UDen * UDen + 3 * un * UDen * UDen - 3 * un * un * UDen
        + un * un * un
BsW1(un) ==
    UDen * UDen * UDen + 3 * un * UDen * UDen + 3 * un * un * UDen
        - 2 * un * un * un
BsW2(un) == un * un * un

\* P0 * exp(w0 log(P0^-1 P1)) * exp(w1 log(P1^-1 P2)) * exp(w2 log(P2^-1 P3))
\* for the window starting at padded pose i, at the query time un/UDen.
BsPoseRef(i, un) ==
    LET P0 == BsPaddedRef[i]
        P1 == BsPaddedRef[i + 1]
        P2 == BsPaddedRef[i + 2]
        P3 == BsPaddedRef[i + 3]
        E0 == Exp(Scale(Log(Mul(Inv(P0), P1)), BsW0(un)))
        E1 == Exp(Scale(Log(Mul(Inv(P1), P2)), BsW1(un)))
        E2 == Exp(Scale(Log(Mul(Inv(P2), P3)), BsW2(un)))
    IN  Mul(Mul(Mul(P0, E0), E1), E2)

\* C5: for N >= 2 poses and K query times the output has (N-1)*K poses,
\* window-major then time, and the pose of window i at query u is
\* P0 * exp(w0 log(P0^-1 P1)) * exp(w1 log(P1^-1 P2)) * exp(w2 log(P2^-1 P3))
\* in that order, over the input padded with its first and last pose.
C5_CumulativeProduct ==
    (bs_out.status # "none" /\ BsWellFormed) =>
        /\ bs_out.status = "ok"
        /\ DOMAIN bs_out.interPoses = 0..((BsN - 1) * BsK - 1)
        /\ \A i \in 0..(BsN - 2) : \A j \in 0..(BsK - 1) :
              bs_out.interPoses[i * BsK + j] = BsPoseRef(i, bs_in.time[j])

\* A returned call with several windows and several query times, whose poses
\* do not commute and whose output poses differ between the query times.
C5_Witness ==
    /\ bs_out.status = "ok"
    /\ BsN >= 3
    /\ BsK >= 2
    /\ bs_in.time[0] # bs_in.time[1]
    /\ Mul(bs_in.input_poses[0], bs_in.input_poses[1])
           # Mul(bs_in.input_poses[1], bs_in.input_poses[0])
    /\ bs_out.interPoses[0] # bs_out.interPoses[1]
    /\ bs_out.interPoses[BsK] # bs_out.interPoses[0]

BsTwoPosesAtZero ==
    /\ bs_out.status = "ok"
    /\ BsN = 2
    /\ BsK = 1
    /\ bs_in.time[0] = 0

\* C6 as stated: with exactly 2 input poses and the single query time u = 0,
\* A0, A1 and A2 are all the identity and the output is the first input pose.
C6_TwoPosesAtZeroIsFirstPose ==
    BsTwoPosesAtZero =>
        /\ bs_out.A0[0][0] = Identity
        /\ bs_out.A1[0][0] = Identity
        /\ bs_out.A2[0][0] = Identity
        /\ bs_out.interPoses[0] = bs_in.input_poses[0]

\* C6 as amended: with exactly 2 input poses P0, P1 and the single query time
\* u = 0, A0 and A2 are the identity and A1 = exp((1/6) log(P0^-1 P1)); the
\* output is P0 * A1, which is the first input pose only when P0 = P1.
C6_TwoPosesAtZero ==
    BsTwoPosesAtZero =>
        LET P0 == bs_in.input_poses[0]
            P1 == bs_in.input_poses[1]
            sixth == Exp(Scale(Log(Mul(Inv(P0), P1)), LieDen \div 6))
        IN  /\ bs_out.A0[0][0] = Identity
            /\ bs_out.A2[0][0] = Identity
            /\ bs_out.A1[0][0] = sixth
            /\ bs_out.interPoses[0] = Mul(P0, sixth)
            /\ (bs_out.interPoses[0] = P0) <=> (P0 = P1)

\* Such a call with two different poses: the output is not the first pose.
C6_Witness ==
    /\ BsTwoPosesAtZero
    /\ bs_in.input_poses[0] # bs_in.input_poses[1]
    /\ bs_out.interPoses[0] # bs_in.input_poses[0]
    /\ bs_out.A1[0][0] # Identity

\* ------------------------------------------------------------------------
\* Properties of GaussNewton and LevenbergMarquardt (specification Spec)
\* ------------------------------------------------------------------------

\* step has been called.
Stepped == last.status # "none"

\* The pass over the first group (the parameters of the module) of the last
\* call of step, once it has computed its update vector D.
FirstPass == last.groups[1]

FirstPassSolved == Stepped /\ last.groups # <<>> /\ FirstPass.solved

\* The slice of the update vector that corresponds to the trainable parameter
\* p of the module: the entries after those of the trainable parameters
\* before p, as many as p has elements.
SliceOf(p, D) ==
    LET off == SeqSum(Numels(model.params, Range(p)))
    IN  [e \in 0..(model.params[p].numel - 1) |-> D[off + e]]

IsZero(v) == \A i \in DOMAIN v : v[i] = RZero

\* C1: after step, every trainable parameter of the group has been
\* incremented by exactly its own slice of the update vector (same element
\* counts and order as the flattening), and every frozen parameter is
\* unchanged, for every ordered mix of frozen and trainable parameters.
C1_EachSliceToItsOwnParameter ==
    FirstPassSolved =>
        \A p \in DOMAIN model.params :
            theta[p] =
                IF model.params[p].requires_grad
                THEN [e \in DOMAIN last.before[p] |->
                         RAdd(last.before[p][e], SliceOf(p, FirstPass.D)[e])]
                ELSE last.before[p]

\* C2: constructing LevenbergMarquardt with damping <= 0 fails, and whatever
\* the caller stores as damping between steps, no call of step forms and
\* solves the damped system with a damping that is not strictly positive.
C2_NeverSolvesWithNonPositiveDamping ==
    /\ opt.cls = "LevenbergMarquardt" => opt.args.damping > 0
    /\ opt.cls = "AssertionError" => opt.args.damping <= 0
    /\ opt.cls = "LevenbergMarquardt" =>
           \A g \in DOMAIN last.groups :
               last.groups[g].solved => last.groups[g].damping > 0

\* C8: with damping > 0 and min > 0, whatever max the constructor accepted,
\* the matrix A formed in LevenbergMarquardt.step is positive-definite and
\* each of its diagonal entries is strictly greater than that of J^T J.
C8_DampedMatrixPositiveDefinite ==
    opt.cls = "LevenbergMarquardt" /\ opt.args.damping > 0
                                    /\ opt.args.min > 0 =>
        \A g \in DOMAIN last.groups :
            LET pass == last.groups[g]
            IN  pass.damping > 0 /\ pass.min > 0 =>
                    /\ PositiveDefinite(pass.A)
                    /\ \A i \in DOMAIN pass.A : pass.A[i][i] > pass.JtJ[i][i]

\* C9: a call of step (of either optimizer) made when the residual is exactly
\* 0 computes an update vector that is exactly zero, leaves every parameter
\* unchanged and returns 0.
C9_ZeroResidualStepIsNoOp ==
    Stepped /\ IsZero(last.E) =>
        /\ last.status = "ok"
        /\ \A g \in DOMAIN last.groups :
               last.groups[g].solved /\ IsZero(last.groups[g].D)
        /\ theta = last.before
        /\ last.ret = RZero

\* The Jacobian evaluations of the last call of step: one per pass of the
\* loop (lines 94, 332).
JacobianEvaluations == Len(last.groups)

\* The linear solves of the last call of step: the passes that computed D
\* (lines 95, 335), and the one whose factorization raised.
LinearSolves ==
    Cardinality({g \in DOMAIN last.groups : last.groups[g].solved})
        + (IF last.status = "LinAlgError" THEN 1 ELSE 0)

\* C11: every call of step performs exactly one Jacobian evaluation and
\* exactly one linear solve, whatever the parameter groups of the optimizer
\* are when step is called.
C11_OneLinearizationOneSolve ==
    Stepped => JacobianEvaluations = 1 /\ LinearSolves = 1

\* ------------------------------------------------------------------------
\* Error reporting of BSplineSE3 (specification SpecBSplineSE3)
\* ------------------------------------------------------------------------

BsCalled == bs_out.status # "none"

\* A time array whose first two dimensions are not both 1, or fewer than two
\* control poses.
BsMalformed == bs_in.time_shape # <<1, 1>> \/ BsN < 2

\* C12: called with a malformed input, BSplineSE3 reports the violation
\* before any computation (padding, basis weights, windowing) is performed,
\* and produces no output.
C12_MalformedInputRejectedFirst ==
    BsCalled /\ BsMalformed =>
        /\ bs_out.status # "ok"
        /\ bs_out.done = <<>>
        /\ bs_out.interPoses = NoTensor

\* ------------------------------------------------------------------------
\* Segment lookup of CSplineR3 (specification SpecCSplineR3)
\* ------------------------------------------------------------------------

\* The segment lookup of line 72 was performed.
CsLookedUp == cs_out.status # "none" /\ CsN >= 2

\* Query j lies on the polyline, in [0, N-1] (in ticks).
CsOnPolyline(j) == cs_out.xs[j] <= (CsN - 1) * StepDen

\* Query j is exactly a breakpoint.
CsAtBreakpoint(j) == cs_out.xs[j] % StepDen = 0

\* The local coordinate of query j in the segment looked up, in ticks:
\* xs - x[idx], the segments being of length 1 (line 74).
CsLocal(j) == cs_out.xs[j] - cs_out.idxs[j] * StepDen

\* C13 as stated: a query at breakpoint k (0 <= k <= N-2) resolves to
\* segment k, and the local coordinate u of every query is in [0, 1).
C13_BreakpointStartsItsSegment ==
    CsLookedUp =>
        \A j \in DOMAIN cs_out.idxs :
            CsOnPolyline(j) =>
                /\ (CsAtBreakpoint(j) /\ cs_out.xs[j] \div StepDen <= CsN - 2
                        => cs_out.idxs[j] = cs_out.xs[j] \div StepDen)
                /\ 0 <= CsLocal(j) /\ CsLocal(j) < StepDen

\* C13 (amended): a query at breakpoint k of the polyline resolves to the
\* segment ending there, k-1, with local coordinate 1 (to segment 0 with
\* local coordinate 0 when k = 0); every query on the polyline resolves to a
\* segment in 0..N-2 with local coordinate in (0, 1], and a call that returns
\* has evaluated the Hermite weights at that coordinate.
C13_BreakpointEndsItsSegment ==
    CsLookedUp =>
        \A j \in DOMAIN cs_out.idxs :
            CsOnPolyline(j) =>
                /\ cs_out.idxs[j] \in 0..(CsN - 2)
                /\ CsAtBreakpoint(j) =>
                       cs_out.idxs[j] = IF cs_out.xs[j] = 0 THEN 0
                                        ELSE cs_out.xs[j] \div StepDen - 1
                /\ IF cs_out.xs[j] = 0 THEN CsLocal(j) = 0
                   ELSE 0 < CsLocal(j) /\ CsLocal(j) <= StepDen
                /\ CsReturned => cs_out.hh[j] = HermiteWeights(CsLocal(j))

\* A call that returns with a query at an inner breakpoint k (1 <= k <= N-2),
\* resolved to segment k-1 at local coordinate 1.
C13_Witness ==
    /\ CsReturned
    /\ \E j \in DOMAIN cs_out.idxs :
          /\ CsAtBreakpoint(j)
          /\ cs_out.xs[j] \div StepDen \in 1..(CsN - 2)
          /\ cs_out.idxs[j] = cs_out.xs[j] \div StepDen - 1
          /\ CsLocal(j) = StepDen

\* ------------------------------------------------------------------------
\* Failure of the factorization (specification Spec)
\* ------------------------------------------------------------------------

\* The last call of step ended in torch.linalg.cholesky raising.
CholeskyFailed == Stepped /\ last.status = "LinAlgError"

\* C14: when the Cholesky factorization in LevenbergMarquardt.step fails, the
\* step fails without another solver computing an update in its place, and
\* every parameter keeps the value it had before the call.
C14_CholeskyFailureLeavesParameters ==
    CholeskyFailed =>
        /\ ~last.groups[Len(last.groups)].solved
        /\ last.groups[Len(last.groups)].D = NoTensor
        /\ last.ret = NoValue
        /\ theta = last.before

====
